---- MODULE Spec2Model ----
(***************************************************************************)
(* The batch pipeline of src/main.rs: group the county records by date and *)
(* county key (a parallel fold followed by a parallel reduce), derive the  *)
(* state nodes of every date, and write one Graph per date.                *)
(*                                                                         *)
(* A HashMap is a function; its iteration order is not fixed by the code   *)
(* (std's RandomState), so every loop over a HashMap whose result depends  *)
(* on the order takes the order as a nondeterministic choice. A BTreeMap   *)
(* or BTreeSet is a function or a set: its order is canonical.             *)
(* The values summed stay far below the i64 range.                         *)
(***************************************************************************)
EXTENDS Integers, Sequences, FiniteSets, TLC

VARIABLES
    data,              \* Vec<CovidCountyRawDataEntry>, the parsed input
    pc,                \* the event main() is in
    partials,          \* the accumulators of the fold and the reduce, one per split
    placed,            \* history: record index -> the bucket and key it went to
    grouped,           \* the result of "group by"
    with_state_nodes,  \* the Graphs built so far, by date
    attempted,         \* the dates whose file write has been attempted
    files,             \* the output directory: file name -> content
    failed,            \* a write returned Err
    run,               \* which run of the pipeline on this input
    previous           \* the output directory the run before left

vars == << data, pc, partials, placed, grouped, with_state_nodes,
           attempted, files, failed, run, previous >>

----------------------------------------------------------------------------
(* Bounds of the model *)

MaxLen == 3

MaxRerunLen == 2

----------------------------------------------------------------------------
(* Inputs *)

CovidCountyRawDataEntry(date, county, state, values, entry_type) ==
    [date |-> date, county |-> county, state |-> state,
     values |-> values, entry_type |-> entry_type]

\* The records the inputs are made of: two counties of one state, one county
\* name in two states, a state and a county whose names hold the separator,
\* an unknown kind, two timestamps of one second and one of another.
Records ==
    { CovidCountyRawDataEntry(1000, "Alpha", "CA", 10, "Confirmed"),
      CovidCountyRawDataEntry(1000, "Alpha", "CA", 2, "Deaths"),
      CovidCountyRawDataEntry(1000, "Beta", "CA", 5, "Confirmed"),
      CovidCountyRawDataEntry(1000, "Alpha", "NY", 7, "Confirmed"),
      CovidCountyRawDataEntry(1999, "Beta", "CA - Alpha", 1, "Recovered"),
      CovidCountyRawDataEntry(1000, "Alpha - Beta", "CA", 3, "Confirmed"),
      CovidCountyRawDataEntry(2000, "Beta", "NY", 4, "Deaths") }

\* The scenario of the specification's section 8.
Scenario ==
    << CovidCountyRawDataEntry(1000, "Alpha", "CA", 10, "Confirmed"),
       CovidCountyRawDataEntry(1000, "Alpha", "CA", 2, "Deaths"),
       CovidCountyRawDataEntry(1000, "Beta", "CA", 5, "Confirmed"),
       CovidCountyRawDataEntry(1000, "Alpha", "NY", 7, "Confirmed") >>

\* Records that differ in their timestamp only: the two sides of a second, of
\* a day and of the epoch.
DateRecords ==
    { CovidCountyRawDataEntry(ms, "Alpha", "CA", 1, "Confirmed") :
        ms \in {-1, 0, 999, 1000, 86399999, 86400000} }

\* Records of one date that make Graphs of more than one county and state.
RerunRecords ==
    { CovidCountyRawDataEntry(1000, "Alpha", "CA", 10, "Confirmed"),
      CovidCountyRawDataEntry(1000, "Beta", "CA", 5, "Confirmed"),
      CovidCountyRawDataEntry(1000, "Alpha", "NY", 7, "Confirmed") }

SeqsUpTo(S, n) == UNION { [1..k -> S] : k \in 0..n }

----------------------------------------------------------------------------
(* HashMap / BTreeMap helpers *)

EmptyMap == << >>

Put(m, k, v) == [x \in (DOMAIN m) \cup {k} |-> IF x = k THEN v ELSE m[x]]

----------------------------------------------------------------------------
(* group by: the fold *)

MsPerSec == 1000

\* i64 division truncates toward zero.
TruncDiv(a, b) == IF a >= 0 THEN a \div b ELSE -((-a) \div b)

\* Mutant of timestamp: the timestamp cut down to its UTC day.
timestamp_of_day(ms) == (ms \div 86400000) * 86400

\* Utc.timestamp(entry.date / 1000, 0): a DateTime<Utc> is its second count.
timestamp(ms) == TruncDiv(ms, MsPerSec)

\* Mutant of county_key: the key without its state.
county_key_without_state(state, name) == name

county_key(state, name) == state \o " - " \o name

CountyEntry(name, state, confirmed, deaths) ==
    [name |-> name, state |-> state, confirmed |-> confirmed, deaths |-> deaths]

\* Mutant of match_entry_type: deaths counted as confirmed cases.
match_deaths_as_confirmed(county_entry, entry) ==
    IF entry.entry_type \in {"Confirmed", "Deaths"}
    THEN [county_entry EXCEPT !.confirmed = @ + entry.values]
    ELSE county_entry

\* Mutant of match_entry_type: every kind but "Deaths" counted as confirmed.
match_unknown_as_confirmed(county_entry, entry) ==
    IF entry.entry_type = "Deaths"
    THEN [county_entry EXCEPT !.deaths = @ + entry.values]
    ELSE [county_entry EXCEPT !.confirmed = @ + entry.values]

match_entry_type(county_entry, entry) ==
    CASE entry.entry_type = "Confirmed" ->
           [county_entry EXCEPT !.confirmed = @ + entry.values]
      [] entry.entry_type = "Deaths" ->
           [county_entry EXCEPT !.deaths = @ + entry.values]
      [] OTHER -> county_entry

fold_op(result, entry) ==
    LET date == timestamp(entry.date)
        date_entry == IF date \in DOMAIN result THEN result[date] ELSE EmptyMap
        key == county_key(entry.state, entry.county)
        county_entry == IF key \in DOMAIN date_entry
                        THEN date_entry[key]
                        ELSE CountyEntry(entry.county, entry.state, 0, 0)
    IN  Put(result, date, Put(date_entry, key, match_entry_type(county_entry, entry)))

\* The fold of one whole sequence into one accumulator.
RECURSIVE fold(_, _)
fold(result, entries) ==
    IF entries = << >> THEN result
    ELSE fold(fold_op(result, Head(entries)), Tail(entries))

----------------------------------------------------------------------------
(* group by: the reduce *)

\* Mutant of reduce_county: a county both sides hold keeps the sums of `into`.
reduce_county_keeps_into(from_date_entry, into_date_entry, county) ==
    IF county \in DOMAIN into_date_entry
    THEN into_date_entry[county]
    ELSE from_date_entry[county]

\* Every (date, county) of `from` is visited once and touches its own entry
\* of `into` only, so the loop's result does not depend on its order.
reduce_county(from_date_entry, into_date_entry, county) ==
    LET into_county_entry ==
            IF county \in DOMAIN into_date_entry
            THEN into_date_entry[county]
            ELSE CountyEntry(from_date_entry[county].name,
                             from_date_entry[county].state, 0, 0)
    IN  IF county \in DOMAIN from_date_entry
        THEN [into_county_entry EXCEPT
                 !.confirmed = @ + from_date_entry[county].confirmed,
                 !.deaths = @ + from_date_entry[county].deaths]
        ELSE into_county_entry

\* Mutant of reduce_date: a date both sides hold keeps the bucket of `into`
\* alone.
reduce_date_keeps_into(from, into, date) ==
    IF date \in DOMAIN into THEN into[date] ELSE from[date]

reduce_date(from, into, date) ==
    LET from_county_entries == IF date \in DOMAIN from THEN from[date] ELSE EmptyMap
        into_date_entry == IF date \in DOMAIN into THEN into[date] ELSE EmptyMap
    IN  [county \in (DOMAIN from_county_entries) \cup (DOMAIN into_date_entry) |->
            reduce_county(from_county_entries, into_date_entry, county)]

reduce_op(from, into) ==
    [date \in (DOMAIN from) \cup (DOMAIN into) |-> reduce_date(from, into, date)]

----------------------------------------------------------------------------
(* add state nodes *)

Node(name, metrics, edges_directed, extra_fields) ==
    [name |-> name, metrics |-> metrics, edges_directed |-> edges_directed,
     extra_fields |-> extra_fields]

\* Node { name, ..Default::default() }
DefaultNode(name) == Node(name, EmptyMap, {}, EmptyMap)

\* Mutant of add_metric: the value replaces the metric.
add_metric_overwrites(node, m, v) == [node EXCEPT !.metrics = Put(node.metrics, m, v)]

add_metric(node, m, v) ==
    LET metrics == IF m \notin DOMAIN node.metrics
                   THEN Put(node.metrics, m, 0)
                   ELSE node.metrics
    IN  [node EXCEPT !.metrics = Put(metrics, m, metrics[m] + v)]

\* The body of `for (key, county_entry) in entries`; acc holds `states` and
\* `all_nodes`.
county_step(acc, key, county_entry) ==
    LET states == IF county_entry.state \notin DOMAIN acc.states
                  THEN Put(acc.states, county_entry.state,
                           DefaultNode(county_entry.state))
                  ELSE acc.states
        state_entry ==
            [add_metric(add_metric(states[county_entry.state],
                                   "confirmed", county_entry.confirmed),
                        "deaths", county_entry.deaths)
             EXCEPT !.edges_directed = @ \cup {key}]
    IN  [states |-> Put(states, county_entry.state, state_entry),
         all_nodes |-> Append(acc.all_nodes,
                              Node(key,
                                   Put(Put(EmptyMap, "confirmed", county_entry.confirmed),
                                       "deaths", county_entry.deaths),
                                   {},
                                   Put(EmptyMap, "display_name", county_entry.name)))]

\* The loop over `entries`, in the order the HashMap yields its keys.
RECURSIVE county_loop(_, _, _)
county_loop(acc, entries, order) ==
    IF order = << >> THEN acc
    ELSE county_loop(county_step(acc, Head(order), entries[Head(order)]),
                     entries, Tail(order))

\* `for (_, state) in states`, in the order the HashMap yields its keys.
RECURSIVE state_loop(_, _, _)
state_loop(all_nodes, states, order) ==
    IF order = << >> THEN all_nodes
    ELSE state_loop(Append(all_nodes, states[Head(order)]), states, Tail(order))

\* The orders a HashMap with the keys S can be iterated in.
IterationOrders(S) ==
    { o \in [1..Cardinality(S) -> S] : \A i, j \in DOMAIN o : i # j => o[i] # o[j] }

Pad2(n) == IF n < 10 THEN "0" \o ToString(n) ELSE ToString(n)

Pad4(n) == CASE n < 10 -> "000" \o ToString(n)
             [] n >= 10 /\ n < 100 -> "00" \o ToString(n)
             [] n >= 100 /\ n < 1000 -> "0" \o ToString(n)
             [] OTHER -> ToString(n)

\* The proleptic Gregorian date of a day count from 1970-01-01.
civil_from_days(days) ==
    LET z == days + 719468
        era == z \div 146097
        doe == z - era * 146097
        yoe == (doe - doe \div 1460 + doe \div 36524 - doe \div 146096) \div 365
        doy == doe - (365 * yoe + yoe \div 4 - yoe \div 100)
        mp == (5 * doy + 2) \div 153
        d == doy - (153 * mp + 2) \div 5 + 1
        m == IF mp < 10 THEN mp + 3 ELSE mp - 9
        y == yoe + era * 400 + (IF m <= 2 THEN 1 ELSE 0)
    IN  [year |-> y, month |-> m, day |-> d]

\* DateTime<Utc>::to_rfc3339 of a second count (years 0..9999).
to_rfc3339(date) ==
    LET civil == civil_from_days(date \div 86400)
        secs == date % 86400
    IN  Pad4(civil.year) \o "-" \o Pad2(civil.month) \o "-" \o Pad2(civil.day)
        \o "T" \o Pad2(secs \div 3600) \o ":" \o Pad2((secs % 3600) \div 60)
        \o ":" \o Pad2(secs % 60) \o "+00:00"

Graph(rfc3339, nodes) == [timestamp |-> rfc3339, nodes |-> nodes]

\* The states map as it stands after the county loop.
states_of(entries, order) ==
    county_loop([states |-> EmptyMap, all_nodes |-> << >>], entries, order).states

\* The closure mapped over `grouped`, for the iteration orders of the two
\* HashMaps.
build_graph(date, entries, order, state_order) ==
    LET acc == county_loop([states |-> EmptyMap, all_nodes |-> << >>], entries, order)
    IN  Graph(to_rfc3339(date), state_loop(acc.all_nodes, acc.states, state_order))

----------------------------------------------------------------------------
(* write_files *)

\* filepath = output_dir joined with the Graph's timestamp.
filepath(graph) == graph.timestamp

\* serde_json writes a BTreeMap and a BTreeSet in key order and a Vec in its
\* own order, so the document is determined by, and determines, this value.
to_string_pretty(graph) == graph

----------------------------------------------------------------------------
(* State machine *)

\* One split of the parallel iterator: the records lo..hi, the next record
\* to fold, the accumulator, and (history) how many fold accumulators were
\* reduced into it.
Split(lo, hi) == [lo |-> lo, hi |-> hi, next |-> lo, acc |-> EmptyMap, leaves |-> 1]

Folded(p) == p.next > p.hi

Replace(s, i, new) == SubSeq(s, 1, i - 1) \o new \o SubSeq(s, i + 1, Len(s))

InitOn(input) ==
    /\ data = input
    /\ pc = "group_by"
    /\ partials = << Split(1, Len(input)) >>
    /\ placed = EmptyMap
    /\ grouped = EmptyMap
    /\ with_state_nodes = EmptyMap
    /\ attempted = {}
    /\ files = EmptyMap
    /\ failed = FALSE
    /\ run = 1
    /\ previous = EmptyMap

Init == \E input \in SeqsUpTo(Records, MaxLen) \cup {Scenario} : InitOn(input)

\* rayon splits an unstarted range in two.
SplitRange(i, mid) ==
    /\ pc = "group_by"
    /\ partials[i].next = partials[i].lo
    /\ partials[i].lo <= mid /\ mid < partials[i].hi
    /\ partials' = Replace(partials, i,
                           << Split(partials[i].lo, mid), Split(mid + 1, partials[i].hi) >>)
    /\ UNCHANGED << data, pc, placed, grouped, with_state_nodes, attempted,
                    files, failed, run, previous >>

\* One call of the fold closure: split i folds its next record.
FoldStep(i) ==
    /\ pc = "group_by"
    /\ ~Folded(partials[i])
    /\ LET entry == data[partials[i].next]
       IN  /\ partials' = [partials EXCEPT ![i].acc = fold_op(@, entry),
                                           ![i].next = @ + 1]
           /\ placed' = Put(placed, partials[i].next,
                            [date |-> timestamp(entry.date),
                             key |-> county_key(entry.state, entry.county)])
    /\ UNCHANGED << data, pc, grouped, with_state_nodes, attempted,
                    files, failed, run, previous >>

\* One call of the reduce closure on two adjacent results: the left one is
\* `from`, the right one `into`.
ReduceStep(i) ==
    /\ pc = "group_by"
    /\ i < Len(partials)
    /\ Folded(partials[i]) /\ Folded(partials[i + 1])
    /\ partials' = SubSeq(partials, 1, i - 1)
                   \o << [lo |-> partials[i].lo, hi |-> partials[i + 1].hi,
                          next |-> partials[i + 1].next,
                          leaves |-> partials[i].leaves + partials[i + 1].leaves,
                          acc |-> reduce_op(partials[i].acc, partials[i + 1].acc)] >>
                   \o SubSeq(partials, i + 2, Len(partials))
    /\ UNCHANGED << data, pc, placed, grouped, with_state_nodes, attempted,
                    files, failed, run, previous >>

\* The last accumulator left is moved out as the event's result.
GroupByDone ==
    /\ pc = "group_by"
    /\ Len(partials) = 1 /\ Folded(partials[1])
    /\ grouped' = partials[1].acc
    /\ partials' = << >>
    /\ pc' = "add_state_nodes"
    /\ UNCHANGED << data, placed, with_state_nodes, attempted,
                    files, failed, run, previous >>

\* The closure of "add state nodes" on one date of `grouped`.
BuildGraph(date) ==
    /\ pc = "add_state_nodes"
    /\ date \in DOMAIN grouped
    /\ date \notin DOMAIN with_state_nodes
    /\ \E order \in IterationOrders(DOMAIN grouped[date]) :
         \E state_order \in IterationOrders(DOMAIN states_of(grouped[date], order)) :
           with_state_nodes' =
               Put(with_state_nodes, date,
                   build_graph(date, grouped[date], order, state_order))
    /\ UNCHANGED << data, pc, partials, placed, grouped, attempted,
                    files, failed, run, previous >>

AddStateNodesDone ==
    /\ pc = "add_state_nodes"
    /\ DOMAIN with_state_nodes = DOMAIN grouped
    /\ pc' = "write_files"
    /\ UNCHANGED << data, partials, placed, grouped, with_state_nodes, attempted,
                    files, failed, run, previous >>

\* The closure of "write_files" on one Graph, fs::write succeeding.
WriteFile(date) ==
    /\ pc = "write_files"
    /\ date \in DOMAIN with_state_nodes
    /\ date \notin attempted
    /\ attempted' = attempted \cup {date}
    /\ files' = Put(files, filepath(with_state_nodes[date]),
                    to_string_pretty(with_state_nodes[date]))
    /\ UNCHANGED << data, pc, partials, placed, grouped, with_state_nodes,
                    failed, run, previous >>

\* The same, fs::write returning Err.
WriteFileErr(date) ==
    /\ pc = "write_files"
    /\ date \in DOMAIN with_state_nodes
    /\ date \notin attempted
    /\ attempted' = attempted \cup {date}
    /\ failed' = TRUE
    /\ UNCHANGED << data, pc, partials, placed, grouped, with_state_nodes,
                    files, run, previous >>

\* collect::<Result<()>>: Ok when every write was Ok; an Err may end the
\* event before the other writes are attempted.
WriteFilesDone ==
    /\ pc = "write_files"
    /\ failed \/ attempted = DOMAIN with_state_nodes
    /\ pc' = IF failed THEN "failed" ELSE "done"
    /\ UNCHANGED << data, partials, placed, grouped, with_state_nodes, attempted,
                    files, failed, run, previous >>

\* The program is started again on the same input, with an empty output
\* directory.
Rerun ==
    /\ pc = "done"
    /\ run = 1
    /\ run' = 2
    /\ previous' = files
    /\ pc' = "group_by"
    /\ partials' = << Split(1, Len(data)) >>
    /\ placed' = EmptyMap
    /\ grouped' = EmptyMap
    /\ with_state_nodes' = EmptyMap
    /\ attempted' = {}
    /\ files' = EmptyMap
    /\ UNCHANGED << data, failed >>

Dates == { timestamp(data[i].date) : i \in DOMAIN data }

Next ==
    \/ \E i \in 1..Len(partials), mid \in 1..Len(data) : SplitRange(i, mid)
    \/ \E i \in 1..Len(partials) : FoldStep(i)
    \/ \E i \in 1..Len(partials) : ReduceStep(i)
    \/ GroupByDone
    \/ \E date \in Dates : BuildGraph(date)
    \/ AddStateNodesDone
    \/ \E date \in Dates : WriteFile(date)
    \/ \E date \in Dates : WriteFileErr(date)
    \/ WriteFilesDone

Spec == Init /\ [][Next]_vars

\* The pipeline on inputs that differ in their timestamps.
InitDates == \E input \in SeqsUpTo(DateRecords, MaxLen) : InitOn(input)

SpecDates == InitDates /\ [][Next]_vars

\* The pipeline run twice on one input.
InitRerun == \E input \in SeqsUpTo(RerunRecords, MaxRerunLen) : InitOn(input)

NextRerun == Next \/ Rerun

SpecRerun == InitRerun /\ [][NextRerun]_vars

----------------------------------------------------------------------------
(* Properties *)

RECURSIVE Sum(_, _)
\* The sum of f[x] over the x of the finite set S.
Sum(f, S) ==
    IF S = {} THEN 0
    ELSE LET x == CHOOSE y \in S : TRUE IN f[x] + Sum(f, S \ {x})

\* The map date -> county key -> (confirmed, deaths) of an aggregation.
SumsOf(m) ==
    [date \in DOMAIN m |->
        [key \in DOMAIN m[date] |-> << m[date][key].confirmed, m[date][key].deaths >>]]

\* The sum of the values of the records with the indices I that went to the
\* bucket `date` and the key `key` and are of the kind `kind`.
ValuesOf(I, date, key, kind) ==
    LET mine == { i \in I : /\ placed[i] = [date |-> date, key |-> key]
                            /\ data[i].entry_type = kind }
    IN  Sum([i \in mine |-> data[i].values], mine)

IsCountyNode(node) == "display_name" \in DOMAIN node.extra_fields

CountyNodes(graph) == { i \in DOMAIN graph.nodes : IsCountyNode(graph.nodes[i]) }

StateNodes(graph) == { i \in DOMAIN graph.nodes : ~IsCountyNode(graph.nodes[i]) }

Metrics(confirmed, deaths) == [confirmed |-> confirmed, deaths |-> deaths]

\* C1: whatever the splits and the grouping of the reduce calls, "group by"
\* yields the mapping date -> county key -> (confirmed, deaths) that folding
\* the whole input as one shard yields.
C1_ShardingKeepsSums ==
    /\ (pc = "group_by" /\ Len(partials) = 1 /\ Folded(partials[1])) =>
          SumsOf(partials[1].acc) = SumsOf(fold(EmptyMap, data))
    /\ pc # "group_by" => SumsOf(grouped) = SumsOf(fold(EmptyMap, data))

\* Every record was folded on its own, all accumulators are reduced into one
\* and two records met in one aggregate.
C1_Witness ==
    /\ pc = "group_by"
    /\ Len(data) >= 2
    /\ Len(partials) = 1 /\ Folded(partials[1])
    /\ partials[1].leaves = Len(data)
    /\ \E i, j \in DOMAIN data :
          /\ i # j /\ placed[i] = placed[j]
          /\ data[i].entry_type = "Confirmed" /\ data[j].entry_type = "Confirmed"
          /\ partials[1].acc[placed[i].date][placed[i].key].confirmed >= 13

\* C2: in every Graph built, a state node's metrics are the sums of the
\* metrics of the county nodes of its state, its edges are exactly the keys
\* of those counties, and every county has exactly one state node.
C2_StateNodesSumCounties ==
    \A date \in DOMAIN with_state_nodes :
        LET graph == with_state_nodes[date]
            nodes == graph.nodes
            state_of(i) == grouped[date][nodes[i].name].state
        IN  /\ \A s \in StateNodes(graph) :
                  LET counties == { i \in CountyNodes(graph) : state_of(i) = nodes[s].name }
                  IN  /\ nodes[s].metrics =
                           Metrics(Sum([i \in counties |-> nodes[i].metrics["confirmed"]],
                                       counties),
                                   Sum([i \in counties |-> nodes[i].metrics["deaths"]],
                                       counties))
                      /\ nodes[s].edges_directed = { nodes[i].name : i \in counties }
            /\ \A c \in CountyNodes(graph) :
                  Cardinality({ s \in StateNodes(graph) : nodes[s].name = state_of(c) }) = 1

\* A state node with two counties, both with cases.
C2_Witness ==
    \E date \in DOMAIN with_state_nodes :
        LET graph == with_state_nodes[date]
        IN  \E s \in StateNodes(graph) :
                /\ Cardinality(graph.nodes[s].edges_directed) = 2
                /\ graph.nodes[s].metrics["confirmed"] = 15
                /\ Cardinality(StateNodes(graph)) = 2

\* The Graph the scenario of section 8 must give, as a set of nodes.
ScenarioNodes ==
    { Node("CA - Alpha", Metrics(10, 2), {}, [display_name |-> "Alpha"]),
      Node("CA - Beta", Metrics(5, 0), {}, [display_name |-> "Beta"]),
      Node("NY - Alpha", Metrics(7, 0), {}, [display_name |-> "Alpha"]),
      Node("CA", Metrics(15, 2), {"CA - Alpha", "CA - Beta"}, EmptyMap),
      Node("NY", Metrics(7, 0), {"NY - Alpha"}, EmptyMap) }

\* C4: a county node's confirmed metric is the sum of the values of the
\* Confirmed records of its date and county key, its deaths metric the sum of
\* the Deaths records (0 without any); the scenario of section 8 gives the
\* five nodes the specification lists.
C4_CountyNodesSumRecords ==
    \A date \in DOMAIN with_state_nodes :
        LET graph == with_state_nodes[date]
        IN  /\ \A i \in DOMAIN data :
                  placed[i].date = date =>
                      \E c \in CountyNodes(graph) : graph.nodes[c].name = placed[i].key
            /\ \A c \in CountyNodes(graph) :
                  graph.nodes[c].metrics =
                      Metrics(ValuesOf(DOMAIN data, date, graph.nodes[c].name, "Confirmed"),
                              ValuesOf(DOMAIN data, date, graph.nodes[c].name, "Deaths"))
            /\ data = Scenario =>
                  /\ Len(graph.nodes) = 5
                  /\ { graph.nodes[i] : i \in DOMAIN graph.nodes } = ScenarioNodes

\* The scenario's Graph is built and written.
C4_Witness ==
    /\ data = Scenario
    /\ pc = "done"
    /\ DOMAIN with_state_nodes = {1}
    /\ Len(with_state_nodes[1].nodes) = 5

\* Two records of one date with one county name and different states.
Namesakes(i, j) ==
    /\ data[i].county = data[j].county
    /\ data[i].state # data[j].state
    /\ placed[i].date = placed[j].date

\* C5: two counties of one name in different states, on one date, have
\* different keys, never share an aggregate (each key's aggregate holds the
\* values of its own records only, in every accumulator of the fold and of
\* the reduce) and give two county nodes.
C5_NamesakesKeptApart ==
    /\ \A p \in 1..Len(partials) :
          \A i, j \in partials[p].lo .. (partials[p].next - 1) :
              Namesakes(i, j) =>
                  LET I == partials[p].lo .. (partials[p].next - 1)
                      date == placed[i].date
                      bucket == partials[p].acc[date]
                  IN  /\ placed[i].key # placed[j].key
                      /\ {placed[i].key, placed[j].key} \subseteq DOMAIN bucket
                      /\ \A k \in {placed[i].key, placed[j].key} :
                            /\ bucket[k].confirmed = ValuesOf(I, date, k, "Confirmed")
                            /\ bucket[k].deaths = ValuesOf(I, date, k, "Deaths")
    /\ \A i, j \in DOMAIN placed :
          (Namesakes(i, j) /\ placed[i].date \in DOMAIN with_state_nodes) =>
              LET graph == with_state_nodes[placed[i].date]
              IN  \E a, b \in CountyNodes(graph) :
                      /\ a # b
                      /\ graph.nodes[a].name = placed[i].key
                      /\ graph.nodes[b].name = placed[j].key
                      /\ graph.nodes[a].name # graph.nodes[b].name

\* Alpha of CA and Alpha of NY, both with cases, in one Graph.
C5_Witness ==
    /\ pc = "done"
    /\ \E i, j \in DOMAIN placed :
          /\ Namesakes(i, j)
          /\ data[i].values > 0 /\ data[j].values > 0
          /\ data[i].entry_type = "Confirmed" /\ data[j].entry_type = "Confirmed"

\* The UTC calendar day of a millisecond timestamp, as a day count.
UtcDay(ms) == ms \div 86400000

\* The whole seconds of a millisecond timestamp, rounded toward zero, stated
\* without a division.
WholeSeconds(ms) ==
    CHOOSE q \in {-1, 0, 1, 2, 86398, 86399, 86400, 86401} :
        IF ms >= 0 THEN q * 1000 <= ms /\ ms < (q + 1) * 1000
                   ELSE (q - 1) * 1000 < ms /\ ms <= q * 1000 /\ q <= 0

C6_UnknownKindAddsNothing ==
    /\ [][\A p \in 1..Len(partials) :
            (FoldStep(p) /\ data[partials[p].next].entry_type \notin {"Confirmed", "Deaths"}) =>
                LET entry == data[partials[p].next]
                    date == placed'[partials[p].next].date
                    key == placed'[partials[p].next].key
                    before == partials[p].acc
                    after == partials'[p].acc
                    known == date \in DOMAIN before /\ key \in DOMAIN before[date]
                IN  /\ after[date][key].confirmed = (IF known THEN before[date][key].confirmed ELSE 0)
                    /\ after[date][key].deaths = (IF known THEN before[date][key].deaths ELSE 0)
                    /\ \A d \in DOMAIN before : \A k \in DOMAIN before[d] :
                          << d, k >> # << date, key >> => after[d][k] = before[d][k]
                    /\ pc' # "failed"]_vars
    /\ [](pc = "failed" => failed)
    /\ [](\A date \in DOMAIN with_state_nodes :
            \A c \in CountyNodes(with_state_nodes[date]) :
                LET name == with_state_nodes[date].nodes[c].name
                IN  with_state_nodes[date].nodes[c].metrics =
                        Metrics(ValuesOf(DOMAIN data, date, name, "Confirmed"),
                                ValuesOf(DOMAIN data, date, name, "Deaths")))

\* A record of an unknown kind was folded into a county that had cases, and
\* the pipeline ran to its end.
C6_Witness ==
    /\ pc = "done"
    /\ \E i, j \in DOMAIN data :
          /\ i < j
          /\ data[j].entry_type = "Recovered"
          /\ data[i].entry_type = "Confirmed"
          /\ placed[i] = placed[j]

\* C7: the second run of the pipeline on the same input leaves the files the
\* first run left: the same names, each with the same Graph, node order
\* included.
C7_RerunIdentical ==
    (run = 2 /\ pc = "done") => files = previous

\* C8: no two nodes of a Graph have the same name.
C8_NodeNamesUnique ==
    \A date \in DOMAIN with_state_nodes :
        LET nodes == with_state_nodes[date].nodes
        IN  \A i, j \in DOMAIN nodes : i # j => nodes[i].name # nodes[j].name

\* C9: whatever the splits and the grouping of the reduce calls, "group by"
\* yields the aggregates, display name and state included, that folding the
\* whole input as one shard yields.
C9_ShardingKeepsNames ==
    pc # "group_by" => grouped = fold(EmptyMap, data)

\* The (date, county key) pairs that have an aggregate in a map.
AggregatesIn(m) == UNION { { << date, key >> : key \in DOMAIN m[date] } : date \in DOMAIN m }

\* The (date, county key) pairs of the records with the indices I.
ObservedBy(I) == { << placed[i].date, placed[i].key >> : i \in I }

\* The aggregates held by the accumulators of the fold and the reduce.
Aggregates == UNION { AggregatesIn(partials[p].acc) : p \in 1..Len(partials) }

\* C10: an accumulator holds an aggregate for a date and county key exactly
\* when it has folded a record (of any kind) of that date and key; no fold or
\* reduce call removes an aggregate; the Graph of a date has exactly one
\* county node per key observed on that date, and every Graph has a county
\* node and a state node.
C10_AggregatesFollowRecords ==
    /\ [](\A p \in 1..Len(partials) :
            AggregatesIn(partials[p].acc) =
                ObservedBy(partials[p].lo .. (partials[p].next - 1)))
    /\ [](pc # "group_by" => AggregatesIn(grouped) = ObservedBy(DOMAIN data))
    /\ [][Aggregates \cup AggregatesIn(grouped)
             \subseteq (Aggregates \cup AggregatesIn(grouped))']_vars
    /\ [](pc \in {"write_files", "done"} =>
            DOMAIN with_state_nodes = { placed[i].date : i \in DOMAIN data })
    /\ [](\A date \in DOMAIN with_state_nodes :
            LET graph == with_state_nodes[date]
                keys == { placed[i].key : i \in { j \in DOMAIN data : placed[j].date = date } }
            IN  /\ \A key \in keys :
                      Cardinality({ c \in CountyNodes(graph) : graph.nodes[c].name = key }) = 1
                /\ Cardinality(CountyNodes(graph)) = Cardinality(keys)
                /\ CountyNodes(graph) # {}
                /\ StateNodes(graph) # {})

\* A county seen only as a record of an unknown kind has its node in the
\* Graph written.
C10_Witness ==
    /\ pc = "done"
    /\ Len(data) = 3
    /\ data[1].entry_type = "Recovered"
    /\ placed[2].date = placed[1].date /\ placed[2].key # placed[1].key
    /\ placed[3].date # placed[1].date
    /\ \E c \in CountyNodes(with_state_nodes[placed[1].date]) :
          with_state_nodes[placed[1].date].nodes[c].name = placed[1].key

====
